---- MODULE Spec2Model ----
(***************************************************************************)
(* Fortress password generator (src/src/generator.py).                     *)
(*                                                                         *)
(* One AIPasswordGenerator object and its caller.  The state is the        *)
(* object's fields (policy, _char_sets), the locals of the running         *)
(* generate_password call (context, length, password, strength), and the   *)
(* caller's view of how the last call ended (pc, error).  Characters are   *)
(* one-character strings, Python strings are sequences of characters, and  *)
(* a Python dict is a sequence of <<key, value>> pairs in insertion order. *)
(* The strength oracle (the name zxcvbn bound at import) is external: a    *)
(* call to it either raises or returns one of OracleResults.               *)
(***************************************************************************)
EXTENDS Integers, Sequences, FiniteSets

\* ---------------------------------------------------------------- bounds
\* Largest length bound a caller puts in a policy.
MaxLen == 3
\* The attempt counter of a generate_password call saturates here.
MaxAttempts == 2
\* The oracle reports guesses_log10 in 0..MaxLog10.
MaxLog10 == 1
\* Both length bounds of the four-class policies of ScenarioPolicyArgs.
ScenarioLength == 5

\* ----------------------------------------------------------------- state
VARIABLES
  pc,         \* "new", "ctor_raised", "idle", "loop", "candidate", "scored",
              \* "returned", "analyzed", "raised"
  policy,     \* self.policy
  char_sets,  \* self._char_sets
  context,    \* generate_password's context argument
  length,     \* the length drawn in this iteration
  password,   \* the candidate of this iteration; the value returned
  strength,   \* the dict analyze_strength returned in this iteration
  oracle,     \* the last oracle call of the running call: arguments and outcome
  attempts,   \* iterations of the while loop started in this call (saturating)
  zxcvbn,     \* what the global name zxcvbn is bound to: "module" or "callable"
  oracle_calls,   \* oracle calls made by the running call (saturating)
  memo,           \* one remembered oracle input and the oracle's answer to it
  random_touched, \* another caller drew from the random module during this call
  error       \* the exception that ended the constructor or the call

\* ------------------------------------------------------- base alphabets
\* string.ascii_uppercase, string.ascii_lowercase, string.digits and the
\* special-character literal, cut down to a few characters each.
ascii_uppercase == <<"A", "B">>
ascii_lowercase == <<"a">>
digits == <<"0">>
special_literal == <<"!">>

\* A dict key that is the class name 'uppercase', ... (a one-element tuple,
\* so that it can be compared with a key that is a whole alphabet string).
Key(name) == <<name>>

\* The dict literal of __init__.
BaseCharSets ==
  << <<Key("uppercase"), ascii_uppercase>>,
     <<Key("lowercase"), ascii_lowercase>>,
     <<Key("digits"), digits>>,
     <<Key("special"), special_literal>> >>

Range(s) == {s[i] : i \in 1..Len(s)}

\* ------------------------------------------------------------- policies
\* PasswordPolicy(): the dataclass defaults.  The four excluded characters
\* (double quote, single quote, backslash, backtick) are written by name.
DefaultPolicy ==
  [min_length |-> 16, max_length |-> 32,
   require_uppercase |-> TRUE, require_lowercase |-> TRUE,
   require_digits |-> TRUE, require_special |-> TRUE,
   min_entropy |-> 70,
   excluded_chars |-> <<"dquote", "squote", "backslash", "backtick">>]

\* Length bounds a caller may write: the dataclass validates nothing.
LengthValues == {-1} \cup (0..MaxLen)

\* Thresholds: none, one the oracle can meet exactly, one above every
\* strength the oracle reports.
MinEntropyValues == {0, 10, 10 * (MaxLog10 + 1)}

\* excluded_chars: nothing; characters of no class; one of two uppercase
\* letters; every digit.
ExcludedValues == {<< >>, <<"squote", "backtick">>, <<"A">>, digits}

\* The policies a caller passes: max_length is min_length, one more (so that
\* randint has a choice), or one less (an empty range).
Policies ==
  {p \in [min_length : LengthValues, max_length : LengthValues,
          require_uppercase : BOOLEAN, require_lowercase : BOOLEAN,
          require_digits : BOOLEAN, require_special : BOOLEAN,
          min_entropy : MinEntropyValues,
          excluded_chars : ExcludedValues] :
     p.max_length - p.min_length \in {-1, 0, 1}}

\* The policy argument of __init__: a policy object, or None.
None == [none |-> TRUE]
PolicyArgs == Policies \cup {None}

\* context of generate_password: None or {} (both falsy), or one entry.
Contexts == {<< >>, << <<"service", <<"A">>>> >>}

\* password arguments of a direct analyze_strength call.
AnalyzedPasswords == {<< >>, <<"a", "0">>}

\* What the oracle returns when it returns.
OracleResults ==
  {[score |-> g, guesses_log10 |-> g,
    crack_times_seconds |-> [online_throttling_100_per_hour |-> 3600 * g,
                             online_no_throttling_10_per_second |-> 100 * g],
    feedback |-> [warning |-> IF g = 0 THEN "weak" ELSE "", suggestions |-> << >>]] :
     g \in 0..MaxLog10}

\* A policy that requires all four classes with both length bounds equal and
\* longer than the number of classes, nothing excluded, at each threshold.
ScenarioPolicyArgs ==
  {[min_length |-> ScenarioLength, max_length |-> ScenarioLength,
    require_uppercase |-> TRUE, require_lowercase |-> TRUE,
    require_digits |-> TRUE, require_special |-> TRUE,
    min_entropy |-> e, excluded_chars |-> << >>] : e \in MinEntropyValues}

\* The policies of the specifications that follow one remembered oracle input
\* or a second caller: both length bounds 2, nothing excluded.
SmallPolicyArgs ==
  {p \in Policies : p.min_length = 2 /\ p.max_length = 2 /\ p.excluded_chars = << >>}

\* ----------------------------------------------------------------- dict
DictHas(d, k) == \E i \in 1..Len(d) : d[i][1] = k
DictGet(d, k) == d[CHOOSE i \in 1..Len(d) : d[i][1] = k][2]
\* d[k] = v
DictSet(d, k, v) ==
  IF DictHas(d, k)
    THEN [i \in 1..Len(d) |-> IF d[i][1] = k THEN <<k, v>> ELSE d[i]]
    ELSE Append(d, <<k, v>>)

\* str.replace(char, empty string)
Replace(s, char) == SelectSeq(s, LAMBDA c : c # char)

\* ------------------------------------------------------------- __init__
\* FilterValues as it would be if the loop ran over a copy of the values:
\* the same writes, and no RuntimeError.
RECURSIVE FilterValuesOverCopy(_, _, _, _)
FilterValuesOverCopy(d, char, i, used) ==
  IF i > used THEN [raised |-> FALSE, d |-> d]
  ELSE FilterValuesOverCopy(DictSet(d, d[i][2], Replace(d[i][2], char)), char, i + 1, used)

\* for charset in self._char_sets.values(): self._char_sets[charset] = ...
\* The iterator was created when the dict had `used` entries; asking it for
\* the next value after the dict changed size raises RuntimeError.
RECURSIVE FilterValues(_, _, _, _)
FilterValues(d, char, i, used) ==
  IF Len(d) # used THEN [raised |-> TRUE, d |-> d]
  ELSE IF i > Len(d) THEN [raised |-> FALSE, d |-> d]
  ELSE FilterValues(DictSet(d, d[i][2], Replace(d[i][2], char)), char, i + 1, used)

\* for char in self.policy.excluded_chars: ...
RECURSIVE FilterChars(_, _, _)
FilterChars(d, excluded, j) ==
  IF j > Len(excluded) THEN [raised |-> FALSE, d |-> d]
  ELSE LET r == FilterValues(d, excluded[j], 1, Len(d))
       IN IF r.raised THEN r ELSE FilterChars(r.d, excluded, j + 1)

ChosenPolicy(arg) == IF arg = None THEN DefaultPolicy ELSE arg

\* ------------------------------------------------- _generate_candidate
ClassNames == <<"uppercase", "lowercase", "digits", "special">>

\* Requires with the special flag read from require_digits.
RequiresMisread(p, class) ==
  CASE class = "uppercase" -> p.require_uppercase
    [] class = "lowercase" -> p.require_lowercase
    [] class = "digits" -> p.require_digits
    [] class = "special" -> p.require_digits

\* self.policy.require_<class>
Requires(p, class) ==
  CASE class = "uppercase" -> p.require_uppercase
    [] class = "lowercase" -> p.require_lowercase
    [] class = "digits" -> p.require_digits
    [] class = "special" -> p.require_special

\* The required classes, in the order the code visits them.
RequiredClasses(p) == SelectSeq(ClassNames, LAMBDA c : Requires(p, c))

\* all_chars: the character sets of the required classes, concatenated.
RECURSIVE ConcatSets(_, _, _)
ConcatSets(cs, req, i) ==
  IF i > Len(req) THEN << >>
  ELSE DictGet(cs, Key(req[i])) \o ConcatSets(cs, req, i + 1)

\* The pool built from every class, required or not.
all_chars_of_every_class(p, cs) == ConcatSets(cs, ClassNames, 1)

all_chars(p, cs) == ConcatSets(cs, RequiredClasses(p), 1)

\* The lists the appends can build: one random.choice per required class,
\* from class i on.  Empty when a required class has no character
\* (random.choice of an empty sequence raises IndexError).
RECURSIVE SeedLists(_, _, _)
SeedLists(cs, req, i) ==
  IF i > Len(req) THEN {<< >>}
  ELSE {<<c>> \o rest : c \in Range(DictGet(cs, Key(req[i]))),
                        rest \in SeedLists(cs, req, i + 1)}

\* One character per required class, each drawn from the whole pool.
SeedsFromPool(p, cs) ==
  [1..Len(RequiredClasses(p)) -> Range(all_chars(p, cs))]

Seeds(p, cs) == SeedLists(cs, RequiredClasses(p), 1)

\* Remaining with the seeded characters not subtracted.
RemainingNotSubtracted(len, seeded) == len

\* remaining = length - len(password)
Remaining(len, seeded) == len - seeded

\* len(range(n))
RangeLen(n) == IF n < 0 THEN 0 ELSE n

\* s without its i-th element.
Without(s, i) == SubSeq(s, 1, i - 1) \o SubSeq(s, i + 1, Len(s))

\* random.shuffle: every order of the list.
RECURSIVE Shuffles(_)
Shuffles(s) ==
  IF s = << >> THEN {<< >>}
  ELSE UNION {{<<s[i]>> \o t : t \in Shuffles(Without(s, i))} : i \in 1..Len(s)}

Raise(e) == [raised |-> TRUE, error |-> e, value |-> << >>]
Return(v) == [raised |-> FALSE, error |-> "none", value |-> v]

\* _generate_candidate returning the candidate cut to the target length.
generate_candidate_cut_to_length(p, cs, len) ==
  LET pool == all_chars(p, cs)
      seeds == Seeds(p, cs)
      n == Len(RequiredClasses(p))
      fill == RangeLen(Remaining(len, n))
  IN IF seeds = {} \/ (fill > 0 /\ pool = << >>)
       THEN {Raise("IndexError")}
       ELSE {Return(SubSeq(shuffled, 1, RangeLen(len))) :
               shuffled \in UNION {Shuffles(seed \o extra) :
                                     seed \in seeds,
                                     extra \in [1..fill -> Range(pool)]}}

\* Every outcome of _generate_candidate(len).
generate_candidate(p, cs, len) ==
  LET pool == all_chars(p, cs)
      seeds == Seeds(p, cs)
      n == Len(RequiredClasses(p))
      fill == RangeLen(Remaining(len, n))
  IN IF seeds = {} \/ (fill > 0 /\ pool = << >>)
       THEN {Raise("IndexError")}
       ELSE {Return(shuffled) :
               shuffled \in UNION {Shuffles(seed \o extra) :
                                     seed \in seeds,
                                     extra \in [1..fill -> Range(pool)]}}

\* ------------------------------------------------- _meets_requirements
\* str.isupper, str.islower, str.isdigit on one character of the modelled
\* character universe.
isupper(c) == c \in Range(ascii_uppercase)
islower(c) == c \in Range(ascii_lowercase)
isdigit(c) == c \in Range(digits)

meets_requirements(p, cs, pw) ==
  /\ Requires(p, "uppercase") => \E i \in 1..Len(pw) : isupper(pw[i])
  /\ Requires(p, "lowercase") => \E i \in 1..Len(pw) : islower(pw[i])
  /\ Requires(p, "digits") => \E i \in 1..Len(pw) : isdigit(pw[i])
  /\ Requires(p, "special") =>
       \E i \in 1..Len(pw) : pw[i] \in Range(DictGet(cs, Key("special")))

\* ---------------------------------------------------- analyze_strength
\* user_inputs: the values of context (nothing when context is falsy).
\* user_inputs built from the items of the context, keys included.
user_inputs_with_keys(ctx) ==
  [i \in 1..(2 * Len(ctx)) |-> ctx[(i + 1) \div 2][2 - (i % 2)]]

user_inputs(ctx) == [i \in 1..Len(ctx) |-> ctx[i][2]]

\* What calling the name zxcvbn can do.  Bound to the module (what
\* `import zxcvbn` gives with the zxcvbn package), the call raises
\* TypeError; bound to a callable, it returns a result or raises.
OracleOutcomes(binding) ==
  IF binding = "module"
    THEN {Raise("TypeError")}
    ELSE {Raise("OracleError")} \cup {Return(res) : res \in OracleResults}

\* analyze_strength with the oracle's exception caught and a default report
\* returned in its place.
analyze_strength_defaulting(out) ==
  IF out.raised
    THEN Return([score |-> 4, entropy |-> 100, crack_time |-> 0,
                 feedback |-> [warning |-> "", suggestions |-> << >>]])
    ELSE Return([score |-> out.value.score,
                 entropy |-> out.value.guesses_log10 * 10,
                 crack_time |->
                   out.value.crack_times_seconds.online_no_throttling_10_per_second,
                 feedback |-> out.value.feedback])

\* analyze_strength keeping the last report and returning it again.
analyze_strength_cached(out) ==
  IF out.raised
    THEN Raise(out.error)
    ELSE IF strength.score >= 0
           THEN Return(strength)
           ELSE Return([score |-> out.value.score,
                        entropy |-> out.value.guesses_log10 * 10,
                        crack_time |->
                          out.value.crack_times_seconds.online_no_throttling_10_per_second,
                        feedback |-> out.value.feedback])

\* analyze_strength, given the outcome of its oracle call.
analyze_strength(out) ==
  IF out.raised
    THEN Raise(out.error)
    ELSE Return([score |-> out.value.score,
                 entropy |-> out.value.guesses_log10 * 10,
                 crack_time |->
                   out.value.crack_times_seconds.online_no_throttling_10_per_second,
                 feedback |-> out.value.feedback])

\* Accepts with > in place of >=.
AcceptsStrictlyAbove(p, cs, st, pw) ==
  st.entropy > p.min_entropy /\ meets_requirements(p, cs, pw)

\* Accepts with `or` in place of `and`.
AcceptsEither(p, cs, st, pw) ==
  st.entropy >= p.min_entropy \/ meets_requirements(p, cs, pw)

\* The condition of the if in generate_password.
Accepts(p, cs, st, pw) ==
  st.entropy >= p.min_entropy /\ meets_requirements(p, cs, pw)

Min(a, b) == IF a < b THEN a ELSE b

vars == <<pc, policy, char_sets, context, length, password, strength, oracle,
          attempts, zxcvbn, oracle_calls, memo, random_touched, error>>

NoStrength == [score |-> -1, entropy |-> -1, crack_time |-> -1,
               feedback |-> [warning |-> "", suggestions |-> << >>]]
NoResult == [score |-> -1, guesses_log10 |-> -1,
             crack_times_seconds |-> [online_throttling_100_per_hour |-> -1,
                                      online_no_throttling_10_per_second |-> -1],
             feedback |-> [warning |-> "", suggestions |-> << >>]]
NoCall == [called |-> FALSE, password |-> << >>, user_inputs |-> << >>, raised |-> FALSE,
           result |-> NoResult]
NoMemo == [set |-> FALSE, again |-> FALSE, between |-> FALSE, password |-> << >>, user_inputs |-> << >>,
           outcome |-> Raise("none"), report |-> NoStrength]

\* The record of an oracle call with outcome o.
OracleCall(pw, ui, o) ==
  [called |-> TRUE, password |-> pw, user_inputs |-> ui, raised |-> o.raised,
   result |-> IF o.raised THEN NoResult ELSE o.value]

\* The oracle is deterministic per input: asked again about the remembered
\* input it answers as before; any other call is free.
OracleAnswers(pw, ui) ==
  IF memo.set /\ memo.password = pw /\ memo.user_inputs = ui
    THEN {memo.outcome}
    ELSE OracleOutcomes(zxcvbn)

\* memo after an oracle call on (pw, ui) with outcome o and report r.
Remembered(pw, ui, o, r, remember) ==
  IF memo.set
    THEN IF memo.password = pw /\ memo.user_inputs = ui
           THEN [memo EXCEPT !.again = TRUE]
           ELSE [memo EXCEPT !.between = TRUE]
    ELSE IF remember
           THEN [set |-> TRUE, again |-> FALSE, between |-> FALSE, password |-> pw, user_inputs |-> ui,
                 outcome |-> o, report |-> IF r.raised THEN NoStrength ELSE r.value]
           ELSE memo

Init ==
  /\ pc = "new"
  /\ policy = DefaultPolicy
  /\ char_sets = << >>
  /\ context = << >>
  /\ length = 0
  /\ password = << >>
  /\ strength = NoStrength
  /\ oracle = NoCall
  /\ zxcvbn \in {"module", "callable"}
  /\ attempts = 0
  /\ oracle_calls = 0
  /\ memo = NoMemo
  /\ random_touched = FALSE
  /\ error = "none"

\* AIPasswordGenerator(arg), for an argument among args
ConstructFrom(args) ==
  /\ pc = "new"
  /\ \E arg \in args : policy' = ChosenPolicy(arg)
  /\ LET r == FilterChars(BaseCharSets, policy'.excluded_chars, 1)
     IN IF r.raised
          THEN /\ pc' = "ctor_raised"
               /\ error' = "RuntimeError"
               /\ UNCHANGED char_sets
          ELSE /\ pc' = "idle"
               /\ char_sets' = r.d
               /\ UNCHANGED error
  /\ UNCHANGED <<context, length, password, strength, oracle, attempts, zxcvbn,
                 oracle_calls, memo, random_touched>>

Construct == ConstructFrom(PolicyArgs)

\* generate_password(ctx) is called on the constructed generator.
generate_password(ctx) ==
  /\ pc \in {"idle", "returned", "raised", "analyzed"}
  /\ pc' = "loop"
  /\ context' = ctx
  /\ length' = 0
  /\ password' = << >>
  /\ strength' = NoStrength
  /\ oracle' = NoCall
  /\ attempts' = 0
  /\ oracle_calls' = 0
  /\ random_touched' = FALSE
  /\ error' = "none"
  /\ UNCHANGED <<policy, char_sets, zxcvbn, memo>>

\* Top of the while loop: random.randint, then _generate_candidate.
NextCandidate ==
  /\ pc = "loop"
  /\ attempts' = Min(attempts + 1, MaxAttempts)
  /\ IF policy.min_length > policy.max_length
       THEN /\ pc' = "raised"
            /\ error' = "ValueError"
            /\ UNCHANGED <<length, password>>
       ELSE \E len \in policy.min_length..policy.max_length :
              \E out \in generate_candidate(policy, char_sets, len) :
                /\ length' = len
                /\ IF out.raised
                     THEN /\ pc' = "raised"
                          /\ error' = out.error
                          /\ UNCHANGED password
                     ELSE /\ pc' = "candidate"
                          /\ password' = out.value
                          /\ UNCHANGED error
  /\ UNCHANGED <<policy, char_sets, context, strength, oracle, zxcvbn,
                 oracle_calls, memo, random_touched>>

\* strength = self.analyze_strength(password, context)
Analyze ==
  /\ pc = "candidate"
  /\ oracle_calls' = Min(oracle_calls + 1, MaxAttempts)
  /\ \E o \in OracleAnswers(password, user_inputs(context)) :
       LET r == analyze_strength(o)
       IN /\ oracle' = OracleCall(password, user_inputs(context), o)
          /\ memo' = Remembered(password, user_inputs(context), o, r, FALSE)
          /\ IF r.raised
               THEN /\ pc' = "raised"
                    /\ error' = r.error
                    /\ UNCHANGED strength
               ELSE /\ pc' = "scored"
                    /\ strength' = r.value
                    /\ UNCHANGED error
  /\ UNCHANGED <<policy, char_sets, context, length, password, attempts, zxcvbn,
                 random_touched>>

\* Decide lowering the policy's threshold when it rejects a candidate.
DecideLoweringThreshold ==
  /\ pc = "scored"
  /\ IF Accepts(policy, char_sets, strength, password)
       THEN /\ pc' = "returned"
            /\ UNCHANGED <<policy, length, password, strength, oracle>>
       ELSE /\ pc' = "loop"
            /\ policy' = [policy EXCEPT !.min_entropy = 0]
            /\ length' = 0
            /\ password' = << >>
            /\ strength' = NoStrength
            /\ oracle' = NoCall
  /\ UNCHANGED <<char_sets, context, attempts, zxcvbn, oracle_calls, memo,
                 random_touched, error>>

\* The if of the loop body: return the candidate, or go round again.  The
\* locals of a rejected iteration are dead (each is assigned again before it
\* is read), so going round forgets them.
Decide ==
  /\ pc = "scored"
  /\ IF Accepts(policy, char_sets, strength, password)
       THEN /\ pc' = "returned"
            /\ UNCHANGED <<length, password, strength, oracle>>
       ELSE /\ pc' = "loop"
            /\ length' = 0
            /\ password' = << >>
            /\ strength' = NoStrength
            /\ oracle' = NoCall
  /\ UNCHANGED <<policy, char_sets, context, attempts, zxcvbn, oracle_calls, memo,
                 random_touched, error>>

\* analyze_strength(pw, ctx) is called directly on the constructed generator;
\* remember says whether this input becomes the remembered one.
AnalyzeStrengthCall(pw, ctx, remember) ==
  /\ pc \in {"idle", "returned", "raised", "analyzed"}
  /\ context' = ctx
  /\ password' = pw
  /\ length' = 0
  /\ attempts' = 0
  /\ oracle_calls' = 1
  /\ random_touched' = FALSE
  /\ \E o \in OracleAnswers(pw, user_inputs(ctx)) :
       LET r == analyze_strength(o)
       IN /\ oracle' = OracleCall(pw, user_inputs(ctx), o)
          /\ memo' = Remembered(pw, user_inputs(ctx), o, r, remember)
          /\ IF r.raised
               THEN /\ pc' = "raised"
                    /\ error' = r.error
                    /\ strength' = NoStrength
               ELSE /\ pc' = "analyzed"
                    /\ error' = "none"
                    /\ strength' = r.value
  /\ UNCHANGED <<policy, char_sets, zxcvbn>>

\* The steps of a running generate_password call.
GenerateStep == NextCandidate \/ Analyze \/ Decide

Next ==
  \/ Construct
  \/ \E ctx \in Contexts : generate_password(ctx)
  \/ NextCandidate
  \/ Analyze
  \/ Decide
  \/ \E pw \in AnalyzedPasswords, ctx \in Contexts : AnalyzeStrengthCall(pw, ctx, FALSE)

Spec == Init /\ [][Next]_vars

\* The same program, where the four-class policies of ScenarioPolicyArgs can
\* be chosen too.
ScenarioNext ==
  \/ ConstructFrom(PolicyArgs \cup ScenarioPolicyArgs)
  \/ \E ctx \in Contexts : generate_password(ctx)
  \/ NextCandidate
  \/ Analyze
  \/ Decide
  \/ \E pw \in AnalyzedPasswords, ctx \in Contexts : AnalyzeStrengthCall(pw, ctx, FALSE)

ScenarioSpec == Init /\ [][ScenarioNext]_vars

\* The same program with an oracle that answers the first directly analyzed
\* input the same way every time it is asked again.
DetNext ==
  \/ ConstructFrom(SmallPolicyArgs)
  \/ \E ctx \in Contexts : generate_password(ctx)
  \/ NextCandidate
  \/ Analyze
  \/ Decide
  \/ \E pw \in AnalyzedPasswords, ctx \in Contexts, remember \in BOOLEAN :
       AnalyzeStrengthCall(pw, ctx, remember)

DetSpec == Init /\ [][DetNext]_vars

\* Another thread calls random.randint, random.choice or random.shuffle while
\* this call runs: the functions of the random module share one generator.
OtherCallerDraws ==
  /\ pc \in {"loop", "candidate", "scored"}
  /\ random_touched' = TRUE
  /\ UNCHANGED <<pc, policy, char_sets, context, length, password, strength, oracle,
                 attempts, zxcvbn, oracle_calls, memo, error>>

ConcNext ==
  \/ ConstructFrom(SmallPolicyArgs)
  \/ \E ctx \in Contexts : generate_password(ctx)
  \/ NextCandidate
  \/ Analyze
  \/ Decide
  \/ OtherCallerDraws

ConcSpec == Init /\ [][ConcNext]_vars

\* A running call keeps running: the interpreter executes the next statement
\* of generate_password whenever there is one.
FairSpec == Init /\ [][Next]_vars /\ WF_vars(GenerateStep)

\* ------------------------------------------------------------ properties
\* The base alphabet of a class, and what the policy documents as its usable
\* alphabet: the base alphabet without the excluded characters.
BaseAlphabet(class) ==
  CASE class = "uppercase" -> ascii_uppercase
    [] class = "lowercase" -> ascii_lowercase
    [] class = "digits" -> digits
    [] class = "special" -> special_literal

UsableAlphabet(class, excluded) ==
  SelectSeq(BaseAlphabet(class), LAMBDA c : c \notin Range(excluded))

RequiredByPolicy ==
  {c \in Range(ClassNames) :
     \/ c = "uppercase" /\ policy.require_uppercase
     \/ c = "lowercase" /\ policy.require_lowercase
     \/ c = "digits" /\ policy.require_digits
     \/ c = "special" /\ policy.require_special}

\* Occurrences in pw of characters of the class.
CountOf(pw, class) ==
  Cardinality({i \in 1..Len(pw) : pw[i] \in Range(BaseAlphabet(class))})

Constructed == pc \notin {"new", "ctor_raised"}
SomeRequiredClassEmptied ==
  \E c \in RequiredByPolicy : UsableAlphabet(c, policy.excluded_chars) = << >>
ValidBounds == 0 < policy.min_length /\ policy.min_length <= policy.max_length

\* C1: every string generate_password returns has a length between
\* min_length and max_length, for every policy with positive, ordered bounds
\* whose required classes are non-empty, also when max_length is smaller than
\* the number of required classes.
C1_ReturnedLengthWithinBounds ==
  (pc = "returned" /\ ValidBounds /\ ~SomeRequiredClassEmptied)
    => (policy.min_length <= Len(password) /\ Len(password) <= policy.max_length)

\* C2: every string generate_password returns contains at least one
\* character of every class the policy requires, whatever the oracle reported.
C2_RequiredClassesPresent ==
  pc = "returned" => \A c \in RequiredByPolicy : CountOf(password, c) >= 1

C2_Witness ==
  /\ pc = "returned"
  /\ Cardinality(RequiredByPolicy) = 2
  /\ Len(password) = 3
  /\ strength.entropy = 0

\* C3: the password generate_password returns is the one analyze_strength
\* scored in that iteration, with the caller's context, and the reported
\* entropy is at least min_entropy.
C3_AcceptanceInvariant ==
  pc = "returned" =>
    /\ oracle.called /\ ~oracle.raised
    /\ oracle.password = password
    /\ oracle.user_inputs = user_inputs(context)
    /\ strength.entropy >= policy.min_entropy

C3_Witness ==
  /\ pc = "returned"
  /\ policy.min_entropy = 10
  /\ strength.entropy = 10
  /\ attempts = 2

C5_RetryLoopEnds ==
  (pc = "loop" /\ policy.min_entropy > 10 * MaxLog10) ~> (pc \in {"returned", "raised"})

\* C6: construction succeeds for every policy whose required classes stay
\* non-empty after exclusion (the default policy among them), and then each
\* class's character set is its base alphabet without the excluded characters.
C6_UsableAlphabets ==
  /\ pc = "ctor_raised" => SomeRequiredClassEmptied
  /\ Constructed =>
       \A c \in Range(ClassNames) :
         DictGet(char_sets, Key(c)) = UsableAlphabet(c, policy.excluded_chars)

\* C7: construction with a policy whose excluded characters empty a required
\* class fails, and it fails with ConfigurationError.
C7_EmptiedClassIsConfigurationError ==
  (pc # "new" /\ SomeRequiredClassEmptied) =>
    (pc = "ctor_raised" /\ error = "ConfigurationError")

\* C8: no generator exists whose policy has min_length > max_length or a
\* length bound that is zero or negative.
C8_NoGeneratorWithBadBounds ==
  Constructed => ValidBounds

\* C9: when min_length = max_length = the number of required classes, the
\* candidate is built without error, has exactly that length and holds
\* exactly one character of each required class.
ExactFit ==
  /\ policy.min_length = Cardinality(RequiredByPolicy)
  /\ policy.max_length = Cardinality(RequiredByPolicy)

C9_ExactFit ==
  ExactFit =>
    /\ pc \in {"candidate", "scored", "returned"} =>
         /\ Len(password) = Cardinality(RequiredByPolicy)
         /\ \A c \in RequiredByPolicy : CountOf(password, c) = 1
    /\ (pc = "raised" /\ attempts > 0) => (oracle.called /\ oracle.raised)

C9_Witness ==
  /\ ExactFit
  /\ pc = "returned"
  /\ Cardinality(RequiredByPolicy) = 3

\* C10: an oracle call that raises ends the running generate_password or
\* analyze_strength call with that error; a returned password or report
\* always comes from an oracle call that returned.
C10_OracleFailurePropagates ==
  /\ (oracle.called /\ oracle.raised) =>
       (pc = "raised" /\ error \in {"TypeError", "OracleError"})
  /\ pc \in {"scored", "returned", "analyzed"} =>
       (oracle.called /\ ~oracle.raised /\ oracle.password = password)

C10_Witness ==
  /\ pc = "raised"
  /\ oracle.called /\ oracle.raised
  /\ attempts = 2
  /\ error = "OracleError"

ContextValues == [i \in 1..Len(context) |-> context[i][2]]

\* C12: analyze_strength passes to the oracle the password and exactly the
\* values of the context (no keys; the empty list when there is no context),
\* and the report it returns has the oracle's score, ten times the oracle's
\* guesses_log10 as strength estimate, the oracle's crack time for online
\* guessing at ten per second, and the oracle's feedback.
C12_ReportFromOracle ==
  /\ (Constructed /\ oracle.called) =>
       /\ oracle.password = password
       /\ oracle.user_inputs = ContextValues
  /\ (pc \in {"scored", "returned", "analyzed"}) =>
       /\ oracle.called /\ ~oracle.raised
       /\ strength.score = oracle.result.score
       /\ strength.entropy = 10 * oracle.result.guesses_log10
       /\ strength.crack_time =
            oracle.result.crack_times_seconds.online_no_throttling_10_per_second
       /\ strength.feedback = oracle.result.feedback

C12_Witness ==
  /\ pc = "analyzed"
  /\ context # << >>
  /\ oracle.user_inputs = << <<"A">> >>
  /\ password # << >>
  /\ oracle.result.guesses_log10 = 1
  /\ strength.entropy = 10

\* The oracle has just been asked about the remembered input.
RememberedInputAsked ==
  /\ memo.set
  /\ oracle.called
  /\ oracle.password = memo.password
  /\ oracle.user_inputs = memo.user_inputs

\* C13: analysis is idempotent and stateless: with an oracle that is
\* deterministic per input, analysing the same password with the same context
\* again, directly or inside generate_password and with any other calls in
\* between, yields the same score and the same strength estimate as the
\* first time, and fails again when it failed the first time.
C13_AnalysisIdempotent ==
  RememberedInputAsked =>
     /\ (pc \in {"scored", "returned", "analyzed"} =>
           /\ ~memo.outcome.raised
           /\ strength.score = memo.report.score
           /\ strength.entropy = memo.report.entropy)
     /\ (memo.outcome.raised => pc = "raised" /\ error = memo.outcome.error)

C13_Witness ==
  /\ RememberedInputAsked
  /\ memo.again
  /\ memo.between
  /\ pc = "analyzed"
  /\ memo.report.entropy = 10
  /\ strength.entropy = 10

\* C14: once the generator is constructed, no step of a generate_password or
\* analyze_strength call changes a field of the policy or the usable alphabet
\* of a class, and the context a running call was given stays as it was
\* passed.
C14_PolicyImmutable ==
  [][Constructed =>
       /\ policy' = policy
       /\ char_sets' = char_sets
       /\ (pc \in {"loop", "candidate", "scored"} => context' = context)]_vars

C14_Witness ==
  /\ pc = "returned"
  /\ attempts = 2
  /\ context # << >>
  /\ oracle.user_inputs = ContextValues
  /\ policy.min_entropy = 10
  /\ char_sets = BaseCharSets

\* C15: two interleaved generate_password calls of independent callers share
\* no hidden mutable state through the random source: while a call runs, and
\* when it has returned, no other caller has drawn from the generator its own
\* draws come from.
C15_NoSharedRandomState ==
  pc \in {"loop", "candidate", "scored", "returned"} => ~random_touched

\* C16: every candidate handed to the oracle holds a character of every
\* required class (one was seeded per class), so the class check of
\* _meets_requirements passes for it, and a candidate is discarded only when
\* its strength estimate is below min_entropy.
C16_SeededCandidates ==
  /\ [](pc \in {"candidate", "scored", "returned"} =>
          /\ \A c \in RequiredByPolicy : CountOf(password, c) >= 1
          /\ meets_requirements(policy, char_sets, password))
  /\ [][(pc = "scored" /\ pc' = "loop") => strength.entropy < policy.min_entropy]_vars

C16_Witness ==
  /\ pc = "scored"
  /\ Cardinality(RequiredByPolicy) = 3
  /\ \A c \in RequiredByPolicy : CountOf(password, c) >= 1
  /\ oracle.password = password
  /\ strength.entropy < policy.min_entropy

C18_NoClassRaises ==
  (Constructed /\ RequiredByPolicy = {}) =>
     /\ all_chars(policy, char_sets) = << >>
     /\ (attempts >= 1 /\ length > 0 =>
           /\ pc = "raised"
           /\ error = "IndexError"
           /\ ~oracle.called
           /\ (policy.min_length > 0 => oracle_calls = 0))
     /\ (pc \in {"candidate", "scored", "returned"} => length <= 0)

C18_Witness ==
  /\ pc = "raised"
  /\ error = "IndexError"
  /\ RequiredByPolicy = {}
  /\ policy.min_length = 2
  /\ length = 2
  /\ attempts = 1
  /\ oracle_calls = 0
====
